---------------------------- MODULE Spec2Model ----------------------------
(***************************************************************************)
(* pyrandr2: a Display object built from one xrandr record, its guarded    *)
(* property setters, the change table, build_cmd and apply_settings        *)
(* (src/pyrandr2/randr.py).                                                *)
(***************************************************************************)
EXTENDS Integers, Sequences, FiniteSets, TLC

VARIABLES
    cfg,    \* the ScreenSettings of the Display (self.__cfg)
    last,   \* the call made last on the Display: its name, arguments and outcome
    log,    \* the external commands run by the last apply_settings/update_setting call
    calls,  \* the number of calls made on the Display since its construction
    settled,\* is_enabled and is_primary as the last completed update_setting left them
    item,   \* RotateDirection: the value being converted
    out,    \* RotateDirection: the result of converting it
    back    \* RotateDirection: the result of converting the result

vars == <<cfg, last, log, calls, settled, item, out, back>>

-----------------------------------------------------------------------------
(* Python values *)

\* None, where the slot otherwise holds a string
None == "<None>"

\* an exception-free outcome
NoError == "ok"

\* str.lower() on the strings the model passes around
Lower(s) ==
    CASE s = "LeftOf" -> "leftof"
      [] s = "Right" -> "right"
      [] s = " Right " -> " right "
      [] s = "LEFT" -> "left"
      [] s = "Sideways" -> "sideways"
      [] OTHER -> s

\* str.strip() on the strings the model passes around
Strip(s) ==
    CASE s = " Right " -> "Right"
      [] s = " right " -> "right"
      [] s = " normal" -> "normal"
      [] s = "inverted " -> "inverted"
      [] OTHER -> s

-----------------------------------------------------------------------------
(* Mode *)

Mode(width, height, freq, current, preferred) ==
    [width |-> width, height |-> height, freq |-> freq,
     current |-> current, preferred |-> preferred]

\* Mode.resolution(): the pair (width, height)
ModeResolution(m) == <<m.width, m.height>>

\* '{0}x{1}'.format(h, w)
FormatResolution_swapped(res) == ToString(res[2]) \o "x" \o ToString(res[1])

\* '{0}x{1}'.format(w, h)
FormatResolution(res) == ToString(res[1]) \o "x" \o ToString(res[2])

-----------------------------------------------------------------------------
(* RotateDirection and PositionType *)

\* the keys of RotateDirection.__rotation
RotationDegrees == {0, 90, 180, 270}

\* RotateDirection.__rotation
rotation_table(d) ==
    CASE d = 0 -> "normal"
      [] d = 90 -> "right"
      [] d = 180 -> "inverted"
      [] d = 270 -> "left"

\* the keys of RotateDirection.__inverted_rot: the values of __rotation
RotationSymbols == {rotation_table(d) : d \in RotationDegrees}

\* RotateDirection.__inverted_rot: {v: k for k, v in __rotation.items()}
inverted_rot(s) == CHOOSE d \in RotationDegrees : rotation_table(d) = s

\* a value handed to or returned by a converter: an int, a str or a raised
\* ValueError; NoVal where there is none yet
IntVal(i) == [kind |-> "int", i |-> i, s |-> "", err |-> NoError]
StrVal(s) == [kind |-> "str", i |-> 0, s |-> s, err |-> NoError]
Raised(e) == [kind |-> "raise", i |-> 0, s |-> "", err |-> e]
NoVal == [kind |-> "none", i |-> 0, s |-> "", err |-> NoError]

\* RotateDirection.__getitem__ falling back to 'normal' for an unknown integer
RotateDirection_getitem_default(x) ==
    IF x.kind = "int"
    THEN IF x.i \in RotationDegrees
         THEN StrVal(rotation_table(x.i))
         ELSE StrVal(rotation_table(0))
    ELSE IF x.kind = "str"
    THEN LET s == Strip(Lower(x.s)) IN
         IF s \in RotationSymbols
         THEN IntVal(inverted_rot(s))
         ELSE Raised("InvalidRotationError")
    ELSE Raised("InvalidRotationError")

\* RotateDirection.__getitem__
RotateDirection_getitem(x) ==
    IF x.kind = "int"
    THEN IF x.i \in RotationDegrees
         THEN StrVal(rotation_table(x.i))
         ELSE Raised("InvalidRotationError")
    ELSE IF x.kind = "str"
    THEN LET s == Strip(Lower(x.s)) IN
         IF s \in RotationSymbols
         THEN IntVal(inverted_rot(s))
         ELSE Raised("InvalidRotationError")
    ELSE Raised("InvalidRotationError")

\* the keys of PositionType.__positions
PositionSymbols == {"leftof", "rightof", "above", "below", "sameas"}

\* PositionType.__positions
positions_table(s) ==
    CASE s = "leftof" -> "--left-of"
      [] s = "rightof" -> "--right-of"
      [] s = "above" -> "--above"
      [] s = "below" -> "--below"
      [] s = "sameas" -> "--same-as"

\* PositionType.__getitem__
PositionType_getitem(s) ==
    IF s # None /\ Lower(s) \in PositionSymbols
    THEN StrVal(positions_table(Lower(s)))
    ELSE Raised("InvalidPositionError")

-----------------------------------------------------------------------------
(* ScreenSettings and the xrandr records *)

\* the keys of ScreenSettings.change_table
Keys == {"resolution", "is_primary", "is_enabled", "rotation", "position"}

\* ScreenSettings.__init__, then Display.__init__ storing the name
ScreenSettings(name) ==
    [name |-> name,
     resolution |-> <<0, 0>>,
     is_primary |-> FALSE,
     is_enabled |-> TRUE,
     rotation |-> None,
     position |-> <<None, None>>,
     is_connected |-> TRUE,
     curr_mode |-> <<>>,
     modes |-> <<>>,
     change_table |-> [k \in Keys |-> FALSE]]

\* any(self.is_changed.values())
AnyChanged(c) == \E k \in Keys : c.change_table[k]

\* one item of parse_xrandr(lines, raw=True): the groups of the output line and the
\* Mode list ('modes' is a key of the item only when the output listed a mode)
RawSetting(name, pr, rot, has_modes, modes) ==
    [out |-> name, pr |-> pr, rot |-> rot, has_modes |-> has_modes, modes |-> modes]

\* the name the Display under test is constructed with
DisplayName == "HDMI-1"

\* the mode lists xrandr reports for the output at one time or another
OnAt1920 == <<Mode(1920, 1080, 60, TRUE, TRUE), Mode(1280, 720, 60, FALSE, FALSE)>>
Off == <<Mode(1920, 1080, 60, FALSE, TRUE), Mode(1280, 720, 60, FALSE, FALSE)>>
TwoCurrent ==
    <<Mode(1920, 1080, 60, FALSE, TRUE), Mode(1280, 720, 60, TRUE, FALSE),
      Mode(1280, 720, 50, TRUE, FALSE)>>


\* the items parse_xrandr produces for the output under test at one time or
\* another: 'pr' is ' primary' or None, 'rot' a word after the geometry or None
ParsedSettings ==
    {RawSetting(DisplayName, None, None, TRUE, OnAt1920),
     RawSetting(DisplayName, " primary", None, TRUE, OnAt1920),
     RawSetting(DisplayName, None, None, TRUE, Off),
     RawSetting(DisplayName, " primary", "left", TRUE, TwoCurrent),
     RawSetting(DisplayName, None, None, FALSE, <<>>)}

\* the items parse_xrandr builds a Display from: Display(item['out'], item) raises
\* KeyError in update_setting for an item without 'modes'
InitialSettings == {r \in ParsedSettings : r.has_modes}

\* the raw_setting dicts a caller hands to update_setting(raw_setting): those of
\* parse_xrandr that have modes, and one with an empty mode list
CallerSettings ==
    InitialSettings \cup {RawSetting(DisplayName, None, None, TRUE, <<>>)}

\* no raw_setting in play
NoRaw == RawSetting(None, None, None, FALSE, <<>>)

\* the resolutions a caller asks for
Resolutions == {<<1920, 1080>>, <<1280, 720>>, <<800, 600>>, <<0, 0>>}

\* the integers and strings a caller assigns to rotation
RotationInts == {0, 90, 45}
RotationStrs == {"right", "sideways"}

\* the (direction, relative_to) pairs a caller assigns to position
Positions ==
    {<<"leftof", "eDP-1">>, <<"LeftOf", "eDP-1">>, <<"sameas", "HDMI-1">>,
     <<"diagonal", "eDP-1">>}

\* the number of calls made on one Display
MaxCalls == 3

-----------------------------------------------------------------------------
(* Display *)

\* Display.available_resolutions()
available_resolutions(c) == [i \in 1..Len(c.modes) |-> ModeResolution(c.modes[i])]

\* new_res in self.available_resolutions()
InAvailable(c, res) ==
    \E i \in 1..Len(c.modes) : available_resolutions(c)[i] = res

\* Display.check_resolution accepting a resolution of no mode
check_resolution_any(c, new_res) == NoError

\* Display.check_resolution: the error raised, if any
check_resolution(c, new_res) ==
    IF ~InAvailable(c, new_res) THEN "UnsupportedResolutionError" ELSE NoError

\* Display.__reset_change_table leaving the 'position' entry as it is
reset_change_table_but_position(c) ==
    [c EXCEPT !.change_table =
        [k \in Keys |-> IF k = "position" THEN c.change_table[k] ELSE FALSE]]

\* Display.__reset_change_table
reset_change_table(c) == [c EXCEPT !.change_table = [k \in Keys |-> FALSE]]

\* the for loop of update_setting from mode number i on, curr being self.__cfg.curr_mode
RECURSIVE ScanModes(_, _, _)
ScanModes(modes, i, curr) ==
    IF i > Len(modes) THEN curr
    ELSE IF modes[i].current THEN <<modes[i]>>
    ELSE ScanModes(modes, i + 1, <<>>)

\* Display.update_setting starting from the position of a new ScreenSettings
update_setting_fresh_position(c, raw) ==
    IF ~raw.has_modes
    THEN [cfg |-> c, err |-> "KeyError"]
    ELSE LET curr == ScanModes(raw.modes, 1, c.curr_mode)
             enabled == curr # <<>>
             c1 == [c EXCEPT !.modes = raw.modes,
                             !.curr_mode = curr,
                             !.is_enabled = enabled,
                             !.is_connected = raw.modes # <<>>,
                             !.rotation = IF raw.rot # None THEN raw.rot
                                          ELSE RotateDirection_getitem(IntVal(0)).s,
                             !.is_primary = raw.pr # None,
                             !.position = <<None, None>>]
             c2 == IF enabled /\ curr # <<>>
                   THEN [c1 EXCEPT !.resolution = ModeResolution(curr[1])]
                   ELSE c1
         IN [cfg |-> reset_change_table(c2), err |-> NoError]

\* Display.update_setting putting the resolution of a display that is off back to (0, 0)
update_setting_sentinel(c, raw) ==
    IF ~raw.has_modes
    THEN [cfg |-> c, err |-> "KeyError"]
    ELSE LET curr == ScanModes(raw.modes, 1, c.curr_mode)
             enabled == curr # <<>>
             c1 == [c EXCEPT !.modes = raw.modes,
                             !.curr_mode = curr,
                             !.is_enabled = enabled,
                             !.is_connected = raw.modes # <<>>,
                             !.rotation = IF raw.rot # None THEN raw.rot
                                          ELSE RotateDirection_getitem(IntVal(0)).s,
                             !.is_primary = raw.pr # None]
             c2 == IF enabled /\ curr # <<>>
                   THEN [c1 EXCEPT !.resolution = ModeResolution(curr[1])]
                   ELSE [c1 EXCEPT !.resolution = <<0, 0>>]
         IN [cfg |-> reset_change_table(c2), err |-> NoError]

\* Display.update_setting, once raw_setting is at hand: the new settings and the
\* error raised, if any
update_setting(c, raw) ==
    IF ~raw.has_modes
    THEN [cfg |-> c, err |-> "KeyError"]
    ELSE LET curr == ScanModes(raw.modes, 1, c.curr_mode)
             enabled == curr # <<>>
             c1 == [c EXCEPT !.modes = raw.modes,
                             !.curr_mode = curr,
                             !.is_enabled = enabled,
                             !.is_connected = raw.modes # <<>>,
                             !.rotation = IF raw.rot # None THEN raw.rot
                                          ELSE RotateDirection_getitem(IntVal(0)).s,
                             !.is_primary = raw.pr # None]
             c2 == IF enabled /\ curr # <<>>
                   THEN [c1 EXCEPT !.resolution = ModeResolution(curr[1])]
                   ELSE c1
         IN [cfg |-> reset_change_table(c2), err |-> NoError]

\* Display.position (setter) refusing a direction PositionType does not know
set_position_strict(c, new_pos) ==
    IF PositionType_getitem(new_pos[1]).kind = "raise"
    THEN [cfg |-> c, err |-> PositionType_getitem(new_pos[1]).err]
    ELSE IF new_pos # c.position
    THEN [cfg |-> [c EXCEPT !.position = <<Lower(new_pos[1]), new_pos[2]>>,
                            !.change_table["position"] = TRUE],
          err |-> NoError]
    ELSE [cfg |-> c, err |-> NoError]

\* Display.position (setter)
set_position(c, new_pos) ==
    IF new_pos # c.position
    THEN [cfg |-> [c EXCEPT !.position = <<Lower(new_pos[1]), new_pos[2]>>,
                            !.change_table["position"] = TRUE],
          err |-> NoError]
    ELSE [cfg |-> c, err |-> NoError]

\* Display.is_enabled (setter) setting its change-table entry instead of flipping it
set_is_enabled_marking(c, enable) ==
    IF enable # c.is_enabled
    THEN [cfg |-> [c EXCEPT !.is_enabled = ~c.is_enabled,
                            !.change_table["is_enabled"] = TRUE],
          err |-> NoError]
    ELSE [cfg |-> c, err |-> NoError]

\* Display.is_enabled (setter) leaving its change-table entry alone
set_is_enabled_unmarked(c, enable) ==
    IF enable # c.is_enabled
    THEN [cfg |-> [c EXCEPT !.is_enabled = ~c.is_enabled], err |-> NoError]
    ELSE [cfg |-> c, err |-> NoError]

\* Display.is_enabled (setter)
set_is_enabled(c, enable) ==
    IF enable # c.is_enabled
    THEN [cfg |-> [c EXCEPT !.is_enabled = ~c.is_enabled,
                            !.change_table["is_enabled"] = ~c.change_table["is_enabled"]],
          err |-> NoError]
    ELSE [cfg |-> c, err |-> NoError]

\* Display.is_primary (setter) setting its change-table entry instead of flipping it
set_is_primary_marking(c, is_primary) ==
    IF is_primary # c.is_primary
    THEN [cfg |-> [c EXCEPT !.is_primary = ~c.is_primary,
                            !.change_table["is_primary"] = TRUE],
          err |-> NoError]
    ELSE [cfg |-> c, err |-> NoError]

\* Display.is_primary (setter)
set_is_primary(c, is_primary) ==
    IF is_primary # c.is_primary
    THEN [cfg |-> [c EXCEPT !.is_primary = ~c.is_primary,
                            !.change_table["is_primary"] = ~c.change_table["is_primary"]],
          err |-> NoError]
    ELSE [cfg |-> c, err |-> NoError]

\* Display.resolution (setter) refusing whenever is_enabled reads false
set_resolution_enabled_only(c, new_res) ==
    IF ~c.is_enabled
    THEN [cfg |-> c, err |-> "DisplayOffError"]
    ELSE IF new_res # c.resolution
    THEN IF check_resolution(c, new_res) # NoError
         THEN [cfg |-> c, err |-> check_resolution(c, new_res)]
         ELSE [cfg |-> [c EXCEPT !.resolution = new_res,
                                 !.change_table["resolution"] = TRUE],
               err |-> NoError]
    ELSE [cfg |-> c, err |-> NoError]

\* Display.resolution (setter); a property assignment cannot pass custom
set_resolution(c, new_res) ==
    IF ~c.is_enabled /\ ~c.change_table["is_enabled"]
    THEN [cfg |-> c, err |-> "DisplayOffError"]
    ELSE IF new_res # c.resolution
    THEN IF check_resolution(c, new_res) # NoError
         THEN [cfg |-> c, err |-> check_resolution(c, new_res)]
         ELSE [cfg |-> [c EXCEPT !.resolution = new_res,
                                 !.change_table["resolution"] = TRUE],
               err |-> NoError]
    ELSE [cfg |-> c, err |-> NoError]

\* Display.rotation (setter) marking the 'position' entry instead of its own
set_rotation_marks_position(c, direction) ==
    LET conv == IF direction.kind = "int"
                THEN RotateDirection_getitem(direction)
                ELSE direction
    IN IF conv.kind = "raise"
       THEN [cfg |-> c, err |-> conv.err]
       ELSE IF conv.s # c.rotation
       THEN [cfg |-> [c EXCEPT !.rotation = conv.s,
                               !.change_table["position"] = TRUE],
             err |-> NoError]
       ELSE [cfg |-> c, err |-> NoError]

\* Display.rotation (setter); direction is an IntVal or a StrVal
set_rotation(c, direction) ==
    LET conv == IF direction.kind = "int"
                THEN RotateDirection_getitem(direction)
                ELSE direction
    IN IF conv.kind = "raise"
       THEN [cfg |-> c, err |-> conv.err]
       ELSE IF conv.s # c.rotation
       THEN [cfg |-> [c EXCEPT !.rotation = conv.s,
                               !.change_table["rotation"] = TRUE],
             err |-> NoError]
       ELSE [cfg |-> c, err |-> NoError]

\* what build_cmd gives: a command, False, or a raised error
Cmd(tokens) == [kind |-> "cmd", tokens |-> tokens, err |-> NoError]
NoCmd == [kind |-> "False", tokens |-> <<>>, err |-> NoError]
CmdRaised(e) == [kind |-> "raise", tokens |-> <<>>, err |-> e]

\* Display.build_cmd adding the position before the rotation
build_cmd_position_first(c) ==
    IF AnyChanged(c)
    THEN LET cmd0 == <<"xrandr", "--output", c.name>> IN
         IF c.change_table["is_enabled"] /\ ~c.is_enabled
         THEN Cmd(Append(cmd0, "--off"))
         ELSE LET cmd1 == IF c.change_table["resolution"]
                          THEN cmd0 \o <<"--mode", FormatResolution(c.resolution)>>
                          ELSE cmd0 \o <<"--auto">>
                  cmd2 == IF c.is_primary /\ c.change_table["is_primary"]
                          THEN Append(cmd1, "--primary")
                          ELSE cmd1
                  flag == PositionType_getitem(c.position[1])
                  cmd3 == IF c.change_table["position"] /\ flag.kind # "raise"
                          THEN cmd2 \o <<flag.s, c.position[2]>>
                          ELSE cmd2
                  cmd4 == IF c.change_table["rotation"]
                          THEN cmd3 \o <<"--rotate", c.rotation>>
                          ELSE cmd3
              IN IF c.change_table["position"] /\ flag.kind = "raise"
                 THEN CmdRaised(flag.err)
                 ELSE Cmd(cmd4)
    ELSE NoCmd

\* Display.build_cmd adding '--primary' whenever is_primary changed
build_cmd_any_primary(c) ==
    IF AnyChanged(c)
    THEN LET cmd0 == <<"xrandr", "--output", c.name>> IN
         IF c.change_table["is_enabled"] /\ ~c.is_enabled
         THEN Cmd(Append(cmd0, "--off"))
         ELSE LET cmd1 == IF c.change_table["resolution"]
                          THEN cmd0 \o <<"--mode", FormatResolution(c.resolution)>>
                          ELSE cmd0 \o <<"--auto">>
                  cmd2 == IF c.change_table["is_primary"]
                          THEN Append(cmd1, "--primary")
                          ELSE cmd1
                  cmd3 == IF c.change_table["rotation"]
                          THEN cmd2 \o <<"--rotate", c.rotation>>
                          ELSE cmd2
                  flag == PositionType_getitem(c.position[1])
              IN IF c.change_table["position"]
                 THEN IF flag.kind = "raise"
                      THEN CmdRaised(flag.err)
                      ELSE Cmd(cmd3 \o <<flag.s, c.position[2]>>)
                 ELSE Cmd(cmd3)
    ELSE NoCmd

\* Display.build_cmd
build_cmd(c) ==
    IF AnyChanged(c)
    THEN LET cmd0 == <<"xrandr", "--output", c.name>> IN
         IF c.change_table["is_enabled"] /\ ~c.is_enabled
         THEN Cmd(Append(cmd0, "--off"))
         ELSE LET cmd1 == IF c.change_table["resolution"]
                          THEN cmd0 \o <<"--mode", FormatResolution(c.resolution)>>
                          ELSE cmd0 \o <<"--auto">>
                  cmd2 == IF c.is_primary /\ c.change_table["is_primary"]
                          THEN Append(cmd1, "--primary")
                          ELSE cmd1
                  cmd3 == IF c.change_table["rotation"]
                          THEN cmd2 \o <<"--rotate", c.rotation>>
                          ELSE cmd2
                  flag == PositionType_getitem(c.position[1])
              IN IF c.change_table["position"]
                 THEN IF flag.kind = "raise"
                      THEN CmdRaised(flag.err)
                      ELSE Cmd(cmd3 \o <<flag.s, c.position[2]>>)
                 ELSE Cmd(cmd3)
    ELSE NoCmd

-----------------------------------------------------------------------------
(* exec_cmd, get_display_data, apply_settings *)

\* one run of exec_cmd
Exec(cmd) == [kind |-> "exec", cmd |-> cmd]
Query == [kind |-> "query", cmd |-> <<"xrandr">>]

\* what exec_cmd(['xrandr']) and parse_xrandr(..., True) give at one moment: whether
\* xrandr ran, and the items of the connected outputs
World(ok, items) == [ok |-> ok, items |-> items]

OtherOutput == RawSetting("eDP-1", None, None, TRUE, OnAt1920)

Worlds ==
    {World(FALSE, <<>>), World(TRUE, <<>>), World(TRUE, <<OtherOutput>>)}
    \cup {World(TRUE, <<r>>) : r \in ParsedSettings}
    \cup {World(TRUE, <<OtherOutput, r>>) : r \in {q \in ParsedSettings : q.modes = TwoCurrent}}

\* the for loop of get_display_data from item number i on
RECURSIVE FindOutput(_, _, _)
FindOutput(items, i, output) ==
    IF i > Len(items) THEN [raw |-> NoRaw, err |-> "UnknownOutputError"]
    ELSE IF items[i].out = output THEN [raw |-> items[i], err |-> NoError]
    ELSE FindOutput(items, i + 1, output)

\* get_display_data
get_display_data(output, w) ==
    IF ~w.ok THEN [raw |-> NoRaw, err |-> "QueryError"]
    ELSE FindOutput(w.items, 1, output)

\* Display.update_setting() without raw_setting: query, then update
update_setting_query(c, w) ==
    LET got == get_display_data(c.name, w) IN
    IF got.err # NoError
    THEN [cfg |-> c, err |-> got.err, log |-> <<Query>>, raw |-> NoRaw]
    ELSE [cfg |-> update_setting(c, got.raw).cfg,
          err |-> update_setting(c, got.raw).err,
          log |-> <<Query>>,
          raw |-> got.raw]

\* apply_settings building the command from the change table even with default set
ApplyCommand_changes_first(c, default) ==
    IF AnyChanged(c) THEN build_cmd(c)
    ELSE IF default THEN Cmd(<<"xrandr", "--output", c.name, "--auto">>)
    ELSE NoCmd

\* the command of an apply_settings that falls back on '--auto' when nothing changed
ApplyCommand_auto_when_idle(c, default) ==
    IF default \/ ~AnyChanged(c) THEN Cmd(<<"xrandr", "--output", c.name, "--auto">>)
    ELSE build_cmd(c)

\* the command apply_settings hands to exec_cmd, if it hands one
ApplyCommand(c, default) ==
    IF default THEN Cmd(<<"xrandr", "--output", c.name, "--auto">>)
    ELSE IF AnyChanged(c) THEN build_cmd(c)
    ELSE NoCmd

\* Display.apply_settings refreshing the display in a finally clause
apply_settings_finally(c, default, exec_ok, w) ==
    LET cmd == ApplyCommand(c, default)
        ran == IF cmd.kind = "cmd" THEN <<Exec(cmd.tokens)>> ELSE <<>>
        upd == update_setting_query(c, w)
    IN IF cmd.kind = "raise"
       THEN [cfg |-> c, err |-> cmd.err, log |-> <<>>, raw |-> NoRaw]
       ELSE IF cmd.kind = "cmd" /\ ~exec_ok
       THEN [cfg |-> upd.cfg, err |-> "ExecutionError", log |-> ran \o upd.log,
             raw |-> upd.raw]
       ELSE IF upd.err # NoError
       THEN [cfg |-> upd.cfg, err |-> upd.err, log |-> ran \o upd.log, raw |-> upd.raw]
       ELSE [cfg |-> reset_change_table(upd.cfg), err |-> NoError,
             log |-> ran \o upd.log, raw |-> upd.raw]

\* Display.apply_settings: exec_ok tells whether the command run by exec_cmd exits
\* with 0, w is what xrandr reports afterwards
apply_settings(c, default, exec_ok, w) ==
    LET cmd == ApplyCommand(c, default)
        ran == IF cmd.kind = "cmd" THEN <<Exec(cmd.tokens)>> ELSE <<>>
        upd == update_setting_query(c, w)
    IN IF cmd.kind = "raise"
       THEN [cfg |-> c, err |-> cmd.err, log |-> <<>>, raw |-> NoRaw]
       ELSE IF cmd.kind = "cmd" /\ ~exec_ok
       THEN [cfg |-> c, err |-> "ExecutionError", log |-> ran, raw |-> NoRaw]
       ELSE IF upd.err # NoError
       THEN [cfg |-> upd.cfg, err |-> upd.err, log |-> ran \o upd.log, raw |-> upd.raw]
       ELSE [cfg |-> reset_change_table(upd.cfg), err |-> NoError,
             log |-> ran \o upd.log, raw |-> upd.raw]

-----------------------------------------------------------------------------
(* the calls a program makes on one Display *)

\* the record of a call: op names it, the other fields are its arguments (those it
\* does not have are left at a default), the raw_setting it used and its outcome
Call(op) ==
    [op |-> op, res |-> <<0, 0>>, flag |-> FALSE, rot |-> IntVal(0),
     pos |-> <<None, None>>, raw |-> NoRaw, err |-> NoError, result |-> NoCmd,
     again |-> FALSE]

\* is_enabled and is_primary as update_setting assigned them
Settled(c) == [is_enabled |-> c.is_enabled, is_primary |-> c.is_primary]

\* the codec variables, idle while a Display is under test
CodecIdle == item = NoVal /\ out = NoVal /\ back = NoVal

\* Display(name, raw_setting), as parse_xrandr constructs it
Init ==
    /\ \E raw \in InitialSettings :
          /\ cfg = update_setting(ScreenSettings(DisplayName), raw).cfg
          /\ last = [Call("init") EXCEPT !.raw = raw]
          /\ settled = Settled(update_setting(ScreenSettings(DisplayName), raw).cfg)
    /\ log = <<>>
    /\ calls = 0
    /\ CodecIdle

\* display.position = (direction, relative_to)
SetPosition ==
    /\ calls < MaxCalls
    /\ calls' = calls + 1
    /\ \E new_pos \in Positions :
        LET r == set_position(cfg, new_pos) IN
        /\ cfg' = r.cfg
        /\ last' = [Call("position") EXCEPT !.pos = new_pos, !.err = r.err]
        /\ UNCHANGED <<log, settled, item, out, back>>

\* display.is_enabled = enable
SetEnabled ==
    /\ calls < MaxCalls
    /\ calls' = calls + 1
    /\ \E enable \in BOOLEAN :
        LET r == set_is_enabled(cfg, enable) IN
        /\ cfg' = r.cfg
        /\ last' = [Call("is_enabled") EXCEPT !.flag = enable, !.err = r.err]
        /\ UNCHANGED <<log, settled, item, out, back>>

\* display.is_primary = is_primary
SetPrimary ==
    /\ calls < MaxCalls
    /\ calls' = calls + 1
    /\ \E is_primary \in BOOLEAN :
        LET r == set_is_primary(cfg, is_primary) IN
        /\ cfg' = r.cfg
        /\ last' = [Call("is_primary") EXCEPT !.flag = is_primary, !.err = r.err]
        /\ UNCHANGED <<log, settled, item, out, back>>

\* display.resolution = new_res
SetResolution ==
    /\ calls < MaxCalls
    /\ calls' = calls + 1
    /\ \E new_res \in Resolutions :
        LET r == set_resolution(cfg, new_res) IN
        /\ cfg' = r.cfg
        /\ last' = [Call("resolution") EXCEPT !.res = new_res, !.err = r.err]
        /\ UNCHANGED <<log, settled, item, out, back>>

\* display.rotation = direction
SetRotation ==
    /\ calls < MaxCalls
    /\ calls' = calls + 1
    /\ \E direction \in {IntVal(i) : i \in RotationInts} \cup {StrVal(s) : s \in RotationStrs} :
        LET r == set_rotation(cfg, direction) IN
        /\ cfg' = r.cfg
        /\ last' = [Call("rotation") EXCEPT !.rot = direction, !.err = r.err]
        /\ UNCHANGED <<log, settled, item, out, back>>

\* display.build_cmd()
BuildCmd ==
    /\ calls < MaxCalls
    /\ calls' = calls + 1
    /\ last' = [Call("build_cmd") EXCEPT !.err = build_cmd(cfg).err,
                                         !.result = build_cmd(cfg)]
    /\ UNCHANGED <<cfg, log, settled, item, out, back>>

\* display.apply_settings(default)
ApplySettings ==
    /\ calls < MaxCalls
    /\ calls' = calls + 1
    /\ \E default \in BOOLEAN, exec_ok \in BOOLEAN, w \in Worlds :
        LET r == apply_settings(cfg, default, exec_ok, w) IN
        /\ cfg' = r.cfg
        /\ log' = r.log
        /\ last' = [Call("apply_settings") EXCEPT
                        !.flag = default, !.raw = r.raw, !.err = r.err,
                        !.again = (last.op = "apply_settings" /\ last.err = NoError)]
        /\ settled' = IF r.err = NoError THEN Settled(r.cfg) ELSE settled
        /\ UNCHANGED <<item, out, back>>

\* display.update_setting(raw_setting)
UpdateSetting ==
    /\ calls < MaxCalls
    /\ calls' = calls + 1
    /\ \E raw \in CallerSettings :
        LET r == update_setting(cfg, raw) IN
        /\ cfg' = r.cfg
        /\ log' = <<>>
        /\ last' = [Call("update_setting") EXCEPT !.raw = raw, !.err = r.err]
        /\ settled' = IF r.err = NoError THEN Settled(r.cfg) ELSE settled
        /\ UNCHANGED <<item, out, back>>

\* display.update_setting()
UpdateSettingQuery ==
    /\ calls < MaxCalls
    /\ calls' = calls + 1
    /\ \E w \in Worlds :
        LET r == update_setting_query(cfg, w) IN
        /\ cfg' = r.cfg
        /\ log' = r.log
        /\ last' = [Call("update_setting") EXCEPT !.raw = r.raw, !.err = r.err]
        /\ settled' = IF r.err = NoError THEN Settled(r.cfg) ELSE settled
        /\ UNCHANGED <<item, out, back>>

Next ==
    \/ SetPosition
    \/ SetEnabled
    \/ SetPrimary
    \/ SetResolution
    \/ SetRotation
    \/ BuildCmd
    \/ ApplySettings
    \/ UpdateSetting
    \/ UpdateSettingQuery

Spec == Init /\ [][Next]_vars

-----------------------------------------------------------------------------
(* RotateDirection on its own: a value is converted, and the result converted back *)

\* the largest integer handed to RotateDirection
MaxDegree == 300

\* the strings handed to RotateDirection
CodecStrings ==
    {"normal", "right", "inverted", "left", "Right", " Right ", "LEFT", " normal",
     "inverted ", "sideways", "Sideways", "90", ""}

CodecInputs ==
    {IntVal(i) : i \in (0 - MaxDegree)..MaxDegree} \cup {StrVal(s) : s \in CodecStrings}

\* no Display is under test
DisplayIdle ==
    /\ cfg = ScreenSettings(DisplayName)
    /\ last = Call("none")
    /\ log = <<>>
    /\ calls = 0
    /\ settled = Settled(ScreenSettings(DisplayName))

InitCodec ==
    /\ item \in CodecInputs
    /\ out = NoVal
    /\ back = NoVal
    /\ DisplayIdle

\* RotateDirection()[item]
Convert ==
    /\ out = NoVal
    /\ out' = RotateDirection_getitem(item)
    /\ UNCHANGED <<item, back, cfg, last, log, calls, settled>>

\* RotateDirection()[RotateDirection()[item]]
ConvertBack ==
    /\ out.kind \in {"int", "str"}
    /\ back = NoVal
    /\ back' = RotateDirection_getitem(out)
    /\ UNCHANGED <<item, out, cfg, last, log, calls, settled>>

NextCodec ==
    \/ Convert
    \/ ConvertBack

SpecCodec == InitCodec /\ [][NextCodec]_vars

-----------------------------------------------------------------------------
(* Properties *)

\* 'WxH' for the resolutions of the mode lists above, written out
ResolutionToken(res) ==
    CASE res = <<1920, 1080>> -> "1920x1080"
      [] res = <<1280, 720>> -> "1280x720"
      [] res = <<800, 600>> -> "800x600"
      [] res = <<0, 0>> -> "0x0"

\* the xrandr flag of a direction name, written out
FlagOf(d) ==
    CASE d \in {"leftof", "LeftOf"} -> "--left-of"
      [] d = "rightof" -> "--right-of"
      [] d = "above" -> "--above"
      [] d = "below" -> "--below"
      [] d = "sameas" -> "--same-as"
      [] OTHER -> "(none)"

\* the direction names PositionType knows, in the letter cases used here
Recognized == {"leftof", "LeftOf", "rightof", "above", "below", "sameas"}

\* exactly the entries of ks are true in the change table
OnlyChanged(c, ks) == \A k \in Keys : c.change_table[k] <=> k \in ks

\* ['xrandr', '--output', name, '--off']
OffCommand(c) == Cmd(<<"xrandr", "--output", c.name, "--off">>)

\* the reference construction of the command, segment by segment
ReferenceCommand(c) ==
    LET head == <<"xrandr", "--output", c.name>>
        mode == IF c.change_table["resolution"]
                THEN <<"--mode", ResolutionToken(c.resolution)>>
                ELSE <<"--auto">>
        primary == IF c.is_primary /\ c.change_table["is_primary"]
                   THEN <<"--primary">> ELSE <<>>
        rotate == IF c.change_table["rotation"]
                  THEN <<"--rotate", c.rotation>> ELSE <<>>
        position == IF c.change_table["position"]
                    THEN <<FlagOf(c.position[1]), c.position[2]>> ELSE <<>>
    IN IF c.change_table["is_enabled"] /\ ~c.is_enabled
       THEN head \o <<"--off">>
       ELSE head \o mode \o primary \o rotate \o position

\* C1: in every reachable state build_cmd gives False exactly when no entry of the
\* change table is true; a command it returns is the reference construction (head,
\* then only '--off' when disabling, else '--mode WxH' or '--auto', '--primary',
\* '--rotate symbol', position flag and target, in that order); it raises only when
\* the pending position has no flag; and with only a rotation change to 90 pending
\* the command is xrandr --output name --auto --rotate right.
C1_BuildCmdIsReference ==
    LET b == build_cmd(cfg) IN
    /\ (b.kind = "False") <=> ~AnyChanged(cfg)
    /\ b.kind = "cmd" => b.tokens = ReferenceCommand(cfg)
    /\ b.kind = "raise" =>
          /\ cfg.change_table["position"]
          /\ cfg.position[1] \notin Recognized
          /\ ~(cfg.change_table["is_enabled"] /\ ~cfg.is_enabled)
    /\ (OnlyChanged(cfg, {"rotation"}) /\ cfg.rotation = "right") =>
          b = Cmd(<<"xrandr", "--output", cfg.name, "--auto", "--rotate", "right">>)
    /\ last.op = "build_cmd" => last.result = b

\* C1 witness: rotation = 90 was the only change and build_cmd has returned the command
C1_Witness ==
    /\ last.op = "build_cmd"
    /\ OnlyChanged(cfg, {"rotation"})
    /\ cfg.name = "HDMI-1"
    /\ last.result = Cmd(<<"xrandr", "--output", "HDMI-1", "--auto", "--rotate", "right">>)

\* C2 as stated: whenever is_enabled reads true, is_enabled = False makes build_cmd
\* return exactly xrandr --output name --off, whatever else is pending.
C2_Original ==
    [][(cfg.is_enabled /\ last'.op = "is_enabled" /\ ~last'.flag)
        => build_cmd(cfg') = OffCommand(cfg')]_vars

\* C2 amended: whenever is_enabled reads true and its change-table entry is false
\* (the display was enabled at its last refresh), is_enabled = False makes build_cmd
\* return exactly xrandr --output name --off, whatever else is pending.
C2_DisablingDominates ==
    [][(cfg.is_enabled /\ ~cfg.change_table["is_enabled"]
        /\ last'.op = "is_enabled" /\ ~last'.flag)
        => build_cmd(cfg') = OffCommand(cfg')]_vars

\* C2 witness: a display enabled at its last refresh was disabled with a rotation and
\* a position change pending
C2_Witness ==
    /\ last.op = "is_enabled" /\ ~last.flag
    /\ ~cfg.is_enabled /\ cfg.change_table["is_enabled"]
    /\ cfg.change_table["rotation"] /\ cfg.change_table["position"]
    /\ build_cmd(cfg) = OffCommand(cfg)

Adjacent(cmd, a, b) == \E i \in 1..(Len(cmd) - 1) : cmd[i] = a /\ cmd[i + 1] = b

\* token a is in cmd
Contains(cmd, a) == \E i \in 1..Len(cmd) : cmd[i] = a

\* res is the resolution of one of the modes
Listed(c, res) == \E i \in 1..Len(c.modes) : <<c.modes[i].width, c.modes[i].height>> = res

\* build_cmd returned a command with '--mode', resolution token of res, and no '--auto'
ModeCommand(b, res) ==
    /\ b.kind = "cmd"
    /\ Adjacent(b.tokens, "--mode", ResolutionToken(res))
    /\ ~Contains(b.tokens, "--auto")

\* C4 as stated: for every (w, h) among the resolutions of the modes, resolution =
\* (w, h) followed by build_cmd gives a command with '--mode', 'WxH' next to each other
\* and without '--auto'.
C4_Original ==
    (last.op = "resolution" /\ Listed(cfg, last.res)) => ModeCommand(build_cmd(cfg), last.res)

\* C4 amended: for every (w, h) among the resolutions of the modes that differs from
\* the stored resolution, on a display whose is_enabled reads true, resolution = (w, h)
\* followed by build_cmd gives, unless build_cmd raises for a pending position with no
\* flag, a command with '--mode', 'WxH' next to each other and without '--auto'.
C4_ModeNotAuto ==
    [][(last'.op = "resolution" /\ Listed(cfg, last'.res) /\ last'.res # cfg.resolution
        /\ cfg.is_enabled /\ build_cmd(cfg').kind # "raise")
        => (last'.err = NoError /\ ModeCommand(build_cmd(cfg'), last'.res))]_vars

\* C4 witness: the resolution went from 1920x1080 to 1280x720 and the command asks for
\* that mode
C4_Witness ==
    /\ last.op = "resolution" /\ last.res = <<1280, 720>> /\ last.err = NoError
    /\ cfg.is_enabled /\ cfg.curr_mode # <<>> /\ cfg.curr_mode[1].width = 1920
    /\ build_cmd(cfg) = Cmd(<<"xrandr", "--output", "HDMI-1", "--mode", "1280x720">>)

\* C5 as stated: for every (w, h) that is the resolution of no mode, resolution = (w, h)
\* raises the unsupported-resolution error and the 'resolution' entry is false afterwards.
C5_Original ==
    (last.op = "resolution" /\ ~Listed(cfg, last.res)) =>
        (last.err = "UnsupportedResolutionError" /\ ~cfg.change_table["resolution"])

\* C5 amended: for every (w, h) that is the resolution of no mode and differs from the
\* stored resolution, on a display that is enabled or has an enable pending,
\* resolution = (w, h) raises the unsupported-resolution error (on a display that is
\* off with no enable pending it raises the display-off error, and for the stored
\* resolution it does nothing); a call that raises leaves the stored resolution and
\* the change table as they were.
C5_UnsupportedRejected ==
    [][(last'.op = "resolution" /\ ~Listed(cfg, last'.res)) =>
        /\ last'.err =
              IF ~cfg.is_enabled /\ ~cfg.change_table["is_enabled"] THEN "DisplayOffError"
              ELSE IF last'.res = cfg.resolution THEN NoError
              ELSE "UnsupportedResolutionError"
        /\ cfg'.resolution = cfg.resolution
        /\ cfg'.change_table = cfg.change_table]_vars

\* C5 witness: 800x600 was refused while a change to 1280x720 was pending, which stays
\* pending
C5_Witness ==
    /\ last.op = "resolution" /\ last.res = <<800, 600>>
    /\ last.err = "UnsupportedResolutionError"
    /\ cfg.resolution = <<1280, 720>> /\ cfg.change_table["resolution"]

\* the argument of the setter call l denotes the value stored in c
DenotesStored(c, l) ==
    \/ l.op = "resolution" /\ l.res = c.resolution
    \/ l.op = "is_enabled" /\ l.flag = c.is_enabled
    \/ l.op = "is_primary" /\ l.flag = c.is_primary
    \/ l.op = "rotation" /\ l.rot.kind = "int" /\ l.rot.i = 0 /\ c.rotation = "normal"
    \/ l.op = "rotation" /\ l.rot.kind = "int" /\ l.rot.i = 90 /\ c.rotation = "right"
    \/ l.op = "rotation" /\ l.rot.kind = "str" /\ l.rot.s = c.rotation
    \/ l.op = "position" /\ l.pos[2] = c.position[2]
          /\ \/ l.pos[1] = c.position[1]
             \/ l.pos[1] = "LeftOf" /\ c.position[1] = "leftof"

\* C6: a setter called with an argument that denotes the stored value (a rotation as
\* degrees or symbol, a position in any letter case) leaves its change-table entry,
\* which bears the name of the property, as it was.
C6_SetterIdempotent ==
    [][DenotesStored(cfg, last') =>
        cfg'.change_table[last'.op] = cfg.change_table[last'.op]]_vars

\* the fields of a ScreenSettings other than the change table
Fields(c) ==
    <<c.name, c.resolution, c.is_primary, c.is_enabled, c.rotation, c.position,
      c.is_connected, c.curr_mode, c.modes>>

\* C7: when apply_settings raises (from build_cmd, from the command or from the
\* re-query) every field of the Display has the value it had before the call.
C7_FailedApplyKeepsFields ==
    [][(last'.op = "apply_settings" /\ last'.err # NoError)
        => Fields(cfg') = Fields(cfg)]_vars

\* C7 witness: the command of a pending change failed
C7_Witness ==
    /\ last.op = "apply_settings" /\ last.err = "ExecutionError"
    /\ AnyChanged(cfg)
    /\ log = <<Exec(build_cmd(cfg).tokens)>>

\* the commands of the log that change the display, in order
Executed(l) == SelectSeq(l, LAMBDA e : e.kind = "exec")

\* C8: apply_settings runs at most one command: with default exactly xrandr --output
\* name --auto, whatever is pending; without default exactly what build_cmd returns
\* when an entry of the change table is true (nothing when build_cmd raises) and
\* nothing when none is; and the command comes before the re-query.
C8_OneCommandBeforeQuery ==
    [][last'.op = "apply_settings" =>
        /\ Len(Executed(log')) <= 1
        /\ last'.flag =>
              Executed(log') = <<Exec(<<"xrandr", "--output", cfg.name, "--auto">>)>>
        /\ (~last'.flag /\ AnyChanged(cfg) /\ build_cmd(cfg).kind = "cmd") =>
              Executed(log') = <<Exec(build_cmd(cfg).tokens)>>
        /\ (~last'.flag /\ AnyChanged(cfg) /\ build_cmd(cfg).kind = "raise") =>
              (log' = <<>> /\ last'.err = build_cmd(cfg).err)
        /\ (~last'.flag /\ ~AnyChanged(cfg)) => Executed(log') = <<>>
        /\ \A i, j \in 1..Len(log') :
              (log'[i].kind = "exec" /\ log'[j].kind = "query") => i < j]_vars

\* C8 witness: apply_settings() ran the command of a pending rotation, then the query
C8_Witness ==
    /\ last.op = "apply_settings" /\ ~last.flag /\ last.err = NoError
    /\ log = <<Exec(<<"xrandr", "--output", "HDMI-1", "--auto", "--rotate", "right">>),
               Query>>

\* C9 as stated: on an enabled display, position = (d, t) with a direction name d that
\* PositionType knows, in any letter case, followed by build_cmd gives a command whose
\* last two tokens are the flag of d and t.
C9_Original ==
    (last.op = "position" /\ last.pos[1] \in Recognized /\ cfg.is_enabled) =>
        LET b == build_cmd(cfg) IN
        /\ b.kind = "cmd"
        /\ Len(b.tokens) >= 2
        /\ SubSeq(b.tokens, Len(b.tokens) - 1, Len(b.tokens))
              = <<FlagOf(last.pos[1]), last.pos[2]>>

\* C9 amended: on an enabled display, position = (d, t) with a direction name d that
\* PositionType knows, in any letter case, where (d, t) as given differs from the
\* stored position or a position change is already pending, followed by build_cmd
\* gives a command whose last two tokens are the flag of d and t.
C9_PositionLast ==
    [][(last'.op = "position" /\ last'.pos[1] \in Recognized /\ cfg.is_enabled
        /\ (last'.pos # cfg.position \/ cfg.change_table["position"])) =>
        LET b == build_cmd(cfg') IN
        /\ b.kind = "cmd"
        /\ Len(b.tokens) >= 2
        /\ SubSeq(b.tokens, Len(b.tokens) - 1, Len(b.tokens))
              = <<FlagOf(last'.pos[1]), last'.pos[2]>>]_vars

\* C9 witness: position = ('LeftOf', 'eDP-1') with a rotation pending, and the command
\* ends with --left-of eDP-1
C9_Witness ==
    /\ last.op = "position" /\ last.pos = <<"LeftOf", "eDP-1">>
    /\ cfg.is_enabled /\ cfg.change_table["rotation"]
    /\ build_cmd(cfg).kind = "cmd"
    /\ SubSeq(build_cmd(cfg).tokens, Len(build_cmd(cfg).tokens) - 1,
              Len(build_cmd(cfg).tokens)) = <<"--left-of", "eDP-1">>

\* the four degrees and the four symbols, written out
FourDegrees == {0, 90, 180, 270}
FourSymbols == {"normal", "right", "inverted", "left"}

\* C10: converting one of the four degrees to its symbol and back, or one of the four
\* symbols to its degrees and back, gives the value started from; an integer outside
\* the four degrees and a string that is none of the four symbols after lower-casing
\* and trimming raise InvalidRotationError.
C10_RoundTrip ==
    /\ (item.kind = "int" /\ item.i \in FourDegrees /\ out # NoVal) =>
          /\ out.kind = "str" /\ out.s \in FourSymbols
          /\ back # NoVal => back = item
    /\ (item.kind = "str" /\ item.s \in FourSymbols /\ out # NoVal) =>
          /\ out.kind = "int" /\ out.i \in FourDegrees
          /\ back # NoVal => back = item
    /\ (item.kind = "int" /\ item.i \notin FourDegrees /\ out # NoVal) =>
          out = Raised("InvalidRotationError")
    /\ (item.kind = "str" /\ Strip(Lower(item.s)) \notin FourSymbols /\ out # NoVal) =>
          out = Raised("InvalidRotationError")

\* C10 witness: 'left' went to 270 and back to 'left'
C10_Witness == item = StrVal("left") /\ out = IntVal(270) /\ back = StrVal("left")

\* the calls that are property assignments, and those that refresh the Display
SetterOps == {"position", "is_enabled", "is_primary", "resolution", "rotation"}
RefreshOps == {"apply_settings", "update_setting"}

\* the change table right after __reset_change_table
AllClear == [k \in Keys |-> FALSE]

FirstCurrent(modes) ==
    IF \E i \in 1..Len(modes) : modes[i].current
    THEN <<modes[CHOOSE i \in 1..Len(modes) :
                    /\ modes[i].current
                    /\ \A j \in 1..(i - 1) : ~modes[j].current]>>
    ELSE <<>>

\* C12: right after an update_setting or apply_settings call that completes, for
\* any record, curr_mode is the first mode of the new list that is marked current,
\* or None when there is none; so curr_mode is one of the modes, is_enabled tells
\* whether there is a curr_mode and is_connected whether the list is non-empty.
C12_CurrentModeIsFirstCurrent ==
    (last.op \in RefreshOps /\ last.err = NoError) =>
        /\ cfg.curr_mode = FirstCurrent(cfg.modes)
        /\ cfg.curr_mode # <<>> => \E i \in 1..Len(cfg.modes) : cfg.modes[i] = cfg.curr_mode[1]
        /\ cfg.is_enabled = (cfg.curr_mode # <<>>)
        /\ cfg.is_connected = (cfg.modes # <<>>)

\* C13: a resolution assignment raises the display-off error if and only if
\* is_enabled reads false and the 'is_enabled' entry is false, that is when the
\* display was off at the last refresh and has not been enabled since; when it
\* raises, the resolution and every entry of the change table are as before.
C13_DisplayOffError ==
    [][last'.op = "resolution" =>
          /\ (last'.err = "DisplayOffError") <=>
                (~cfg.is_enabled /\ ~cfg.change_table["is_enabled"])
          /\ (last'.err = "DisplayOffError") <=>
                (~settled.is_enabled /\ cfg.is_enabled = settled.is_enabled)
          /\ last'.err = "DisplayOffError" =>
                /\ cfg'.resolution = cfg.resolution
                /\ cfg'.change_table = cfg.change_table
      ]_vars

\* a listed resolution was assigned to a display that is off and the assignment
\* was refused
C13_Witness ==
    /\ last.op = "resolution"
    /\ last.res = <<1280, 720>>
    /\ last.err = "DisplayOffError"
    /\ ~cfg.is_enabled
    /\ cfg.resolution # last.res

\* C14 as stated: the stored resolution is always (0, 0) or a resolution of the
\* current modes list, and right after a completed refresh it is the resolution of
\* curr_mode when the display is enabled and (0, 0) when it is not.
C14_Original ==
    /\ cfg.resolution = <<0, 0>> \/ Listed(cfg, cfg.resolution)
    /\ (last.op \in RefreshOps /\ last.err = NoError) =>
          cfg.resolution = IF cfg.is_enabled THEN ModeResolution(cfg.curr_mode[1])
                           ELSE <<0, 0>>

\* C14 amended: a resolution assignment stores only a resolution of the current
\* modes list; a completed refresh stores the resolution of curr_mode when the
\* display is enabled after it and leaves the stored resolution as it was when it
\* is not; a failed refresh and every other call leave the resolution alone.
C14_ResolutionKeptWhenOff ==
    [][/\ last'.op = "resolution" =>
            cfg'.resolution = cfg.resolution \/ Listed(cfg', cfg'.resolution)
       /\ (last'.op \in RefreshOps /\ last'.err = NoError) =>
            cfg'.resolution = IF cfg'.is_enabled THEN ModeResolution(cfg'.curr_mode[1])
                              ELSE cfg.resolution
       /\ (last'.op \in RefreshOps /\ last'.err # NoError) =>
            cfg'.resolution = cfg.resolution
       /\ last'.op \notin RefreshOps \cup {"resolution"} =>
            cfg'.resolution = cfg.resolution
      ]_vars

\* a refresh found the display off and its resolution is still that of the mode it
\* had been showing
C14_Witness ==
    /\ last.op \in RefreshOps
    /\ last.err = NoError
    /\ last.raw.modes = Off
    /\ ~cfg.is_enabled
    /\ cfg.curr_mode = <<>>
    /\ cfg.resolution = <<1920, 1080>>

\* C15: the stored rotation is always one of 'normal', 'left', 'right', 'inverted':
\* a refresh stores the reported word or 'normal', an assignment of degrees the
\* symbol of the table, and an assignment of a string only a valid symbol; an
\* assignment of other degrees raises and changes nothing.
C15_RotationIsSymbol ==
    /\ cfg.rotation \in FourSymbols
    /\ (last.op = "rotation" /\ last.err # NoError) =>
          last.err = "InvalidRotationError" /\ last.rot.kind = "int"
                                            /\ last.rot.i \notin FourDegrees

\* the five directions xrandr has a flag for
FiveDirections == {"leftof", "rightof", "above", "below", "sameas"}

\* C16: a position assignment never raises, whatever the direction string, and
\* leaves (direction lower-cased, relative_to) stored; build_cmd raises, and then
\* the invalid-position error, exactly when the 'position' entry is true, the stored
\* direction is none of leftof/rightof/above/below/sameas and the command is not
\* the '--off' one; build_cmd, raising or not, changes no field and no entry.
C16_LenientWriteStrictApply ==
    [][/\ last'.op = "position" =>
            /\ last'.err = NoError
            /\ cfg'.position = <<Lower(last'.pos[1]), last'.pos[2]>>
       /\ last'.op = "build_cmd" =>
            /\ (last'.err # NoError) <=>
                  /\ cfg.change_table["position"]
                  /\ cfg.position[1] \notin FiveDirections
                  /\ ~(cfg.change_table["is_enabled"] /\ ~cfg.is_enabled)
            /\ last'.err # NoError =>
                  last'.err = "InvalidPositionError" /\ last'.result.kind = "raise"
            /\ cfg' = cfg
      ]_vars

\* build_cmd raised on a direction the position assignment had accepted
C16_Witness ==
    /\ last.op = "build_cmd"
    /\ last.err = "InvalidPositionError"
    /\ cfg.position = <<"diagonal", "eDP-1">>
    /\ cfg.change_table["position"]

\* C17: an apply_settings() call (default false) made right after an apply_settings
\* call that completed without error runs no command but the query, and when the
\* query reports the record the first call saw, every field of the Display and
\* every entry of the change table is as the first call left it.
C17_SecondApplyIdle ==
    [][(/\ last.op = "apply_settings" /\ last.err = NoError
        /\ last'.op = "apply_settings" /\ ~last'.flag) =>
          /\ Executed(log') = <<>>
          /\ last'.raw = last.raw =>
                /\ last'.err = NoError
                /\ Fields(cfg') = Fields(cfg)
                /\ cfg'.change_table = cfg.change_table
      ]_vars

\* a position was assigned and applied, and a second apply_settings() directly after
\* the first has run the query alone and completed
C17_Witness ==
    /\ last.op = "apply_settings"
    /\ last.again
    /\ ~last.flag
    /\ last.err = NoError
    /\ log = <<Query>>
    /\ cfg.position = <<"leftof", "eDP-1">>
    /\ ~AnyChanged(cfg)

\* C18: an assignment to resolution, is_enabled, is_primary, rotation or position,
\* whether it stores, does nothing or raises, leaves every other one of these five
\* fields and every other entry of the change table as they were, and leaves name,
\* modes, curr_mode and is_connected as they were; build_cmd changes nothing.
C18_SetterFrame ==
    [][/\ last'.op \in SetterOps =>
            /\ \A k \in Keys \ {last'.op} :
                    /\ cfg'[k] = cfg[k]
                    /\ cfg'.change_table[k] = cfg.change_table[k]
            /\ cfg'.name = cfg.name
            /\ cfg'.modes = cfg.modes
            /\ cfg'.curr_mode = cfg.curr_mode
            /\ cfg'.is_connected = cfg.is_connected
            /\ log' = log
       /\ last'.op = "build_cmd" => cfg' = cfg /\ log' = log
      ]_vars

\* the display has just been switched by an is_enabled assignment while a rotation
\* and a position were pending, and both are pending still
C18_Witness ==
    /\ last.op = "is_enabled"
    /\ cfg.change_table["is_enabled"]
    /\ cfg.change_table["rotation"] /\ cfg.rotation = "right"
    /\ cfg.change_table["position"] /\ cfg.position = <<"leftof", "eDP-1">>
    /\ ~cfg.change_table["resolution"]
    /\ ~cfg.change_table["is_primary"]

\* C19: the 'is_enabled' entry is true exactly when is_enabled differs from the value
\* the last completed refresh gave it, and the 'is_primary' entry likewise; so an
\* even number of switches between refreshes leaves the entry false, build_cmd gives
\* '--off' only for a display the last refresh found enabled and '--primary' only
\* for one it found not primary.
C19_BooleanEntriesTrackRefresh ==
    /\ cfg.change_table["is_enabled"] <=> (cfg.is_enabled # settled.is_enabled)
    /\ cfg.change_table["is_primary"] <=> (cfg.is_primary # settled.is_primary)
    /\ (build_cmd(cfg).kind = "cmd" /\ Contains(build_cmd(cfg).tokens, "--off")) =>
          settled.is_enabled
    /\ (build_cmd(cfg).kind = "cmd" /\ Contains(build_cmd(cfg).tokens, "--primary")) =>
          ~settled.is_primary

\* build_cmd has just given a command with '--primary' for a display the last
\* refresh found enabled and not primary
C19_Witness ==
    /\ last.op = "build_cmd"
    /\ last.result.kind = "cmd"
    /\ Contains(last.result.tokens, "--primary")
    /\ ~settled.is_primary
    /\ settled.is_enabled
    /\ cfg.is_primary

\* the flags build_cmd has for a position
PositionFlags == {"--left-of", "--right-of", "--above", "--below", "--same-as"}

\* C20: the name is always the one given at construction; an update_setting or
\* apply_settings call changes neither the name nor the stored position, and when
\* it completes the 'position' entry is false; assigning the stored pair again is
\* then a no-op, after which build_cmd does not raise and gives no position flag.
C20_RefreshKeepsNameAndPosition ==
    [][/\ cfg.name = DisplayName /\ cfg'.name = DisplayName
       /\ last'.op \in RefreshOps =>
            /\ cfg'.position = cfg.position
            /\ last'.err = NoError => ~cfg'.change_table["position"]
       /\ (last'.op = "position" /\ last'.pos = cfg.position
                                 /\ ~cfg.change_table["position"]) =>
            /\ cfg' = cfg
            /\ build_cmd(cfg').kind # "raise"
            /\ \A f \in PositionFlags : ~Contains(build_cmd(cfg').tokens, f)
      ]_vars

\* a position was assigned, a refresh kept it and cleared its entry, and the stored
\* pair has just been assigned again
C20_Witness ==
    /\ last.op = "position"
    /\ last.pos = <<"leftof", "eDP-1">>
    /\ cfg.position = last.pos
    /\ ~cfg.change_table["position"]

=============================================================================
